---- MODULE Spec2Model ----
(***************************************************************************)
(* keybindllm: a hotkey listener that sends selected text to a local       *)
(* model server and pastes the answer back.                                *)
(*                                                                         *)
(* The model follows src/base_service.py (BaseAIService: startup, the      *)
(* pynput callbacks on_press / on_release, send_to_ollama),                *)
(* src/rephrase_service.py (RephraseService) and src/example_service.py    *)
(* (SummaryService).  One action per blocking step of the code: an HTTP    *)
(* call, an xclip / xdotool invocation, a key event.  The outcome of every *)
(* external call is an input of the action.                                *)
(*                                                                         *)
(* Texts are sequences of one-character strings, so that str.strip() and   *)
(* str(keynum) are computed and not assumed.                               *)
(***************************************************************************)
EXTENDS Integers, Sequences, FiniteSets

VARIABLES
    main,          \* where the main thread is: run()'s position, or "exited"
    exitCode,      \* the process exit status once main = "exited", else -1
    startupLog,    \* history: the startup checks passed or failed, in order
    service,       \* "Rephrase" or "Summary": the class main() constructs
    keynum,        \* self.keynum
    pressed_keys,  \* self.pressed_keys
    downLast,      \* history: the keys whose most recent event was a key-down
    chordPresses,  \* history: key-down events that completed the chord
    startFailures, \* history: thread starts that raised inside on_press
    handlers,      \* the handler threads started so far, in start order
    clipboard      \* the X11 clipboard selection

vars == <<main, exitCode, startupLog, service, keynum, pressed_keys, downLast,
          chordPresses, startFailures, handlers, clipboard>>

-----------------------------------------------------------------------------
(* Bounds *)

\* handler threads started in one run of Spec (the full environment)
MaxHandlers == 1
\* handler threads started in one run of SpecOverlap
MaxOverlap == 2
\* handler threads started in one run of SpecKeys (the full keyboard)
MaxKeyHandlers == 2
\* handler threads started in one run of SpecFaults (one after the other)
MaxFaultHandlers == 2
\* handler threads started in one run of SpecLive
MaxLiveHandlers == 1
\* thread starts that fail in one run
MaxStartFailures == 1

-----------------------------------------------------------------------------
(* Texts *)

\* Python's None, where a text is expected
NoneVal == <<"None">>

Whitespace == {" ", "\n"}

RECURSIVE LStrip(_)
LStrip(s) ==
    IF s # <<>> /\ Head(s) \in Whitespace THEN LStrip(Tail(s)) ELSE s

RECURSIVE RStrip(_)
RStrip(s) ==
    IF s # <<>> /\ s[Len(s)] \in Whitespace
    THEN RStrip(SubSeq(s, 1, Len(s) - 1))
    ELSE s

\* str.strip()
Strip(s) == RStrip(LStrip(s))

\* Python truthiness of an optional text: `not x` is Falsy(x)
Falsy(x) == x = NoneVal \/ x = <<>>

Sentinel == <<"<", "n", "u", "l", "l", ">">>

DigitChar == <<"0", "1", "2", "3", "4", "5", "6", "7", "8", "9">>

\* str(n) for a natural number n
RECURSIVE Str(_)
Str(n) ==
    IF n < 10 THEN <<DigitChar[n + 1]>>
    ELSE Str(n \div 10) \o <<DigitChar[(n % 10) + 1]>>

-----------------------------------------------------------------------------
(* Keys, as pynput delivers them *)

\* a member of the Key enum: it has no `char` attribute
SpecialKey(n) == [name |-> n, hasChar |-> FALSE, char |-> NoneVal]
\* a KeyCode: `char` is a one-character string
CharKey(c) == [name |-> "KeyCode", hasChar |-> TRUE, char |-> <<c>>]

ctrl_l == SpecialKey("ctrl_l")
ctrl_r == SpecialKey("ctrl_r")
alt_l == SpecialKey("alt_l")
alt_r == SpecialKey("alt_r")

\* the full keyboard of SpecKeys
AllKeys == {ctrl_l, ctrl_r, alt_l, alt_r, CharKey("2"), CharKey("3")}
\* the keys of one chord, for the specifications about handlers
ChordKeys == {ctrl_l, alt_l, CharKey("2")}

-----------------------------------------------------------------------------
(* Configuration and the initial state *)

\* self.ollama_model, from OLLAMA_MODEL (default)
ollama_model == "gemma3"

Services == {"Rephrase", "Summary"}

\* the state after main() has constructed the service and called run()
InitWith(nums, clips) ==
    /\ main = "health"
    /\ exitCode = -1
    /\ startupLog = <<>>
    /\ service \in Services
    /\ keynum \in nums
    /\ pressed_keys = {}
    /\ downLast = {}
    /\ chordPresses = 0
    /\ startFailures = 0
    /\ handlers = <<>>
    /\ clipboard \in clips

-----------------------------------------------------------------------------
(* Startup: run() and ensure_ollama_running() *)

\* what one HTTP call can come to: a status, or requests raising
HttpOutcomes == {"200", "500", "exception"}

\* the model names /api/tags may list, as <<name, tag>>
TagLists == { {}, {<<"gemma3", "latest">>}, {<<"llama3", "8b">>} }

\* model['name'].split(':')[0] for every listed model
AvailableModels(tags) == { t[1] : t \in tags }

ListenerUntouched == UNCHANGED <<service, keynum, pressed_keys, downLast,
                                 chordPresses, startFailures, handlers,
                                 clipboard>>

\* a check passed: log it and go on to position `next`
Passed(event, next) ==
    /\ main' = next
    /\ startupLog' = Append(startupLog, event)
    /\ UNCHANGED exitCode
    /\ ListenerUntouched

\* the mutant of EnsureFailed: run() goes on to the listener all the same
EnsureFailedIgnored(event) ==
    /\ main' = "listener_start"
    /\ startupLog' = Append(startupLog, event)
    /\ UNCHANGED exitCode
    /\ ListenerUntouched

\* ensure_ollama_running() returns False: run() calls sys.exit(1)
EnsureFailed(event) ==
    /\ main' = "exited"
    /\ exitCode' = 1
    /\ startupLog' = Append(startupLog, event)
    /\ ListenerUntouched

\* step 1: GET /api/tags, timeout 5
CheckHealth(resp) ==
    /\ main = "health"
    /\ CASE resp = "200" -> Passed("health_ok", "tags")
         [] resp = "exception" ->
                /\ main' = "start_ollama"
                /\ UNCHANGED <<exitCode, startupLog>>
                /\ ListenerUntouched
         [] OTHER -> EnsureFailed("health_failed")

\* systemctl --user start ollama, check=True
StartOllama(ok) ==
    /\ main = "start_ollama"
    /\ IF ok
       THEN /\ main' = "verify"
            /\ UNCHANGED <<exitCode, startupLog>>
            /\ ListenerUntouched
       ELSE EnsureFailed("health_failed")

\* GET /api/tags again, timeout 10
VerifyHealth(resp) ==
    /\ main = "verify"
    /\ IF resp = "200"
       THEN Passed("health_ok", "tags")
       ELSE EnsureFailed("health_failed")

\* step 2: GET /api/tags and look for the model; the status is not looked at
ListModels(resp, tags) ==
    /\ main = "tags"
    /\ IF resp = "exception"
       THEN EnsureFailed("model_failed")
       ELSE IF ollama_model \in AvailableModels(tags)
            THEN Passed("model_ok", "warmup")
            ELSE /\ main' = "pull"
                 /\ UNCHANGED <<exitCode, startupLog>>
                 /\ ListenerUntouched

\* POST /api/pull, timeout 300
PullModel(resp) ==
    /\ main = "pull"
    /\ IF resp = "200"
       THEN Passed("model_ok", "warmup")
       ELSE EnsureFailed("model_failed")

\* step 3: POST /api/chat with "test", timeout 30
WarmUp(resp) ==
    /\ main = "warmup"
    /\ IF resp = "200"
       THEN Passed("warmup_ok", "listener_start")
       ELSE EnsureFailed("warmup_failed")

\* Listener(...).start(); a failure is re-raised and main() exits with 1
StartListener(ok) ==
    /\ main = "listener_start"
    /\ IF ok
       THEN Passed("listener_started", "listening")
       ELSE /\ main' = "exited"
            /\ exitCode' = 1
            /\ startupLog' = Append(startupLog, "listener_failed")
            /\ ListenerUntouched

\* KeyboardInterrupt: the listener is stopped, main() returns, status 0.
\* The process is gone, and with it the pressed-key set and the daemon
\* handler threads; the clipboard stays as it is
Interrupt ==
    /\ main # "exited"
    /\ main' = "exited"
    /\ exitCode' = 0
    /\ pressed_keys' = {}
    /\ downLast' = {}
    /\ chordPresses' = 0
    /\ startFailures' = 0
    /\ handlers' = <<>>
    /\ UNCHANGED <<startupLog, service, keynum, clipboard>>

Startup ==
    \/ \E resp \in HttpOutcomes : CheckHealth(resp)
    \/ \E ok \in BOOLEAN : StartOllama(ok)
    \/ \E resp \in HttpOutcomes : VerifyHealth(resp)
    \/ \E resp \in HttpOutcomes, tags \in TagLists : ListModels(resp, tags)
    \/ \E resp \in HttpOutcomes : PullModel(resp)
    \/ \E resp \in HttpOutcomes : WarmUp(resp)
    \/ \E ok \in BOOLEAN : StartListener(ok)

-----------------------------------------------------------------------------
(* The hotkey listener: on_press and on_release *)

Running(h) == h.pc # "done"

\* a handler thread as threading.Thread(target=self.handle_shortcut).start()
\* leaves it: nothing read yet.  Its locals are sel, res and saved; the other
\* fields are history: clip0 and clipEnd are the clipboard when the thread
\* started and when it returned, overlap whether another handler ran beside
\* it, noInput and reply what the input read and the model call came to,
\* calls, writes and pastes count the model calls and the xclip (write) and
\* xdotool invocations, wrote and restored tell how the two writes went, and
\* pasted is the clipboard at the simulated paste
NewHandler(beside) ==
    [pc |-> "get_input", sel |-> NoneVal, res |-> NoneVal, saved |-> NoneVal,
     clip0 |-> clipboard, overlap |-> beside, noInput |-> FALSE,
     reply |-> "none", calls |-> 0, writes |-> 0, wrote |-> "none",
     restored |-> "none", pastes |-> 0, pasted |-> NoneVal,
     clipEnd |-> NoneVal, outcome |-> "running"]

\* the threads after one more is started; the running ones are untouched
\* but for the history mark that they now overlap another
StartThread(hs) ==
    Append([i \in DOMAIN hs |->
               IF Running(hs[i]) THEN [hs[i] EXCEPT !.overlap = TRUE] ELSE hs[i]],
           NewHandler(\E i \in DOMAIN hs : Running(hs[i])))

\* self.pressed_keys.add(key)
AddKey(keys, key) == keys \cup {key}

\* the mutant of Discard: the release empties the set
DiscardAll(keys, key) == {}

\* self.pressed_keys.discard(key)
Discard(keys, key) == keys \ {key}

\* the mutant of ChordTriggered: the right-hand alt key is forgotten
ChordTriggeredNoAltR(keys, key) ==
    /\ ctrl_l \in keys \/ ctrl_r \in keys
    /\ alt_l \in keys
    /\ key.hasChar /\ key.char # NoneVal
    /\ key.char = Str(keynum)

\* on_press, lines 189-202: ctrl_pressed and alt_pressed and the pressed
\* key's char is str(self.keynum)
ChordTriggered(keys, key) ==
    /\ ctrl_l \in keys \/ ctrl_r \in keys
    /\ alt_l \in keys \/ alt_r \in keys
    /\ key.hasChar /\ key.char # NoneVal
    /\ key.char = Str(keynum)

\* the chord as the specification words it: some ctrl-class key and some
\* alt-class key are held once `key` is added, and `key` is the character
\* key of the configured digit
CtrlClass == {ctrl_l, ctrl_r}
AltClass == {alt_l, alt_r}
ChordCompleted(held, key) ==
    /\ (held \cup {key}) \cap CtrlClass # {}
    /\ (held \cup {key}) \cap AltClass # {}
    /\ keynum \in 0..9
    /\ key = CharKey(DigitChar[keynum + 1])

HandlersUntouched == UNCHANGED <<main, exitCode, startupLog, service, keynum,
                                 clipboard>>

\* the mutant of OnPress for overlapping triggers: a chord pressed while a
\* handler runs is dropped
OnPressDropsOverlap(key, start) ==
    /\ main = "listening"
    /\ pressed_keys' = AddKey(pressed_keys, key)
    /\ downLast' = downLast \cup {key}
    /\ chordPresses' =
           chordPresses + (IF ChordCompleted(pressed_keys, key) THEN 1 ELSE 0)
    /\ IF /\ ChordTriggered(pressed_keys', key)
          /\ \A i \in DOMAIN handlers : ~Running(handlers[i])
       THEN IF start = "ok"
            THEN handlers' = StartThread(handlers) /\ UNCHANGED startFailures
            ELSE handlers' = handlers /\ startFailures' = startFailures + 1
       ELSE UNCHANGED <<handlers, startFailures>>
    /\ HandlersUntouched

\* the mutant of OnPress for failures: a busy flag, set on the chord, that
\* only a successful handler clears
OnPressStuckBusy(key, start) ==
    /\ main = "listening"
    /\ pressed_keys' = AddKey(pressed_keys, key)
    /\ downLast' = downLast \cup {key}
    /\ chordPresses' =
           chordPresses + (IF ChordCompleted(pressed_keys, key) THEN 1 ELSE 0)
    /\ IF /\ ChordTriggered(pressed_keys', key)
          /\ startFailures = 0
          /\ \A i \in DOMAIN handlers :
                handlers[i].outcome \in {"replaced", "summarized"}
       THEN IF start = "ok"
            THEN handlers' = StartThread(handlers) /\ UNCHANGED startFailures
            ELSE handlers' = handlers /\ startFailures' = startFailures + 1
       ELSE UNCHANGED <<handlers, startFailures>>
    /\ HandlersUntouched

\* on_press(key): add the key, then start a handler thread on the chord.
\* The listener thread goes on at once: the handler runs in its own thread.
\* `start` is what Thread.start() comes to: should it raise (no thread can
\* be created), line 210 catches and logs it, the key stays in the set and
\* no handler runs
OnPress(key, start) ==
    /\ main = "listening"
    /\ pressed_keys' = AddKey(pressed_keys, key)
    /\ downLast' = downLast \cup {key}
    /\ chordPresses' =
           chordPresses + (IF ChordCompleted(pressed_keys, key) THEN 1 ELSE 0)
    /\ IF ChordTriggered(pressed_keys', key)
       THEN IF start = "ok"
            THEN handlers' = StartThread(handlers) /\ UNCHANGED startFailures
            ELSE handlers' = handlers /\ startFailures' = startFailures + 1
       ELSE UNCHANGED <<handlers, startFailures>>
    /\ HandlersUntouched

\* on_release(key)
OnRelease(key) ==
    /\ main = "listening"
    /\ pressed_keys' = Discard(pressed_keys, key)
    /\ downLast' = downLast \ {key}
    /\ UNCHANGED <<chordPresses, startFailures, handlers>>
    /\ HandlersUntouched

\* the key events of one specification: the keys that go down, the keys that
\* come up, its environment (what a thread start can come to, and whether the
\* user presses the chord while a handler runs) and its bound on the handler
\* threads started
KeyEvents(down, up, E, cap) ==
    \/ \E key \in down, start \in E.threadStart :
          /\ (ChordTriggered(pressed_keys \cup {key}, key)
                \/ ChordCompleted(pressed_keys, key))
             => /\ chordPresses < cap + MaxStartFailures
                /\ IF start = "ok" THEN Len(handlers) < cap
                                   ELSE startFailures < MaxStartFailures
                /\ E.overlap
                      \/ \A i \in DOMAIN handlers : ~Running(handlers[i])
          /\ OnPress(key, start)
    \/ \E key \in up : OnRelease(key)

-----------------------------------------------------------------------------
(* External tools and the model server, as the handlers see them *)

\* what subprocess.run(..., capture_output=True, timeout=2) comes to
Completed(rc, out) == [kind |-> "completed", rc |-> rc, out |-> out]
TimedOut == [kind |-> "timeout", rc |-> 1, out |-> <<>>]
Raised == [kind |-> "raise", rc |-> 1, out |-> <<>>]

\* `xclip -selection clipboard -o`: the clipboard's content, or a failure
ClipReadKinds == {"ok", "nonzero", "timeout", "raise"}
ClipRead(kind) ==
    CASE kind = "ok" -> Completed(0, clipboard)
      [] kind = "nonzero" -> Completed(1, <<>>)
      [] kind = "timeout" -> TimedOut
      [] OTHER -> Raised

\* what requests.post(.../api/chat) comes to: status 0 stands for no response
\* (a transport error or the 30 s timeout); hasContent says whether the JSON
\* body has message.content
Reply(status, has, content) ==
    [status |-> status, hasContent |-> has, content |-> content]

\* the environment of a specification: the outcomes its handlers can meet,
\* what a thread start can come to, and whether the user presses the chord
\* while a handler runs
FullEnv ==
    [threadStart |-> {"ok"},
     overlap |-> TRUE,
     sel |-> {Completed(0, <<" ", "h", "\n">>), Completed(0, <<>>),
              Completed(0, <<" ", "\n">>), Completed(1, <<>>),
              Completed(1, <<"h">>), TimedOut, Raised},
     clipRead |-> ClipReadKinds,
     reply |-> {Reply(0, FALSE, <<>>), Reply(500, FALSE, <<>>),
                Reply(500, TRUE, <<"e">>), Reply(200, FALSE, <<>>),
                Reply(200, TRUE, <<>>), Reply(200, TRUE, <<" ", "\n">>),
                Reply(200, TRUE, Sentinel),
                Reply(200, TRUE, <<" ">> \o Sentinel \o <<"\n">>),
                Reply(200, TRUE, <<"r">>),
                Reply(200, TRUE, <<" ", "s", "\n">>)},
     write |-> {"ok", "nonzero", "raise"},
     paste |-> {"ok", "nonzero", "timeout", "raise"},
     restore |-> {"ok", "fail"}]

\* one outcome of each kind, for the specification with several handlers
\* side by side
KindsEnv ==
    [threadStart |-> {"ok"},
     overlap |-> TRUE,
     sel |-> {Completed(0, <<"h">>), Completed(0, <<>>)},
     clipRead |-> {"ok"},
     reply |-> {Reply(500, FALSE, <<>>), Reply(200, TRUE, Sentinel),
                Reply(200, TRUE, <<"r">>), Reply(200, TRUE, <<"s">>)},
     write |-> {"ok"},
     paste |-> {"ok", "nonzero"},
     restore |-> {"ok"}]

\* every way a handler ends, and thread starts that fail, for the
\* specification with one handler after the other
FaultsEnv ==
    [threadStart |-> {"ok", "raise"},
     overlap |-> FALSE,
     sel |-> {Completed(0, <<"h">>), Completed(0, <<>>)},
     clipRead |-> {"ok"},
     reply |-> {Reply(500, FALSE, <<>>), Reply(200, TRUE, Sentinel),
                Reply(200, TRUE, <<"r">>)},
     write |-> {"ok"},
     paste |-> {"ok", "nonzero"},
     restore |-> {"ok"}]

\* tools and a model server that answer or never respond: a call with a
\* timeout is cut off by it, a call without one does not come back
LiveEnv ==
    [threadStart |-> {"ok"},
     overlap |-> TRUE,
     sel |-> {Completed(0, <<"h">>), TimedOut},
     clipRead |-> {"ok", "timeout"},
     reply |-> {Reply(0, FALSE, <<>>), Reply(200, TRUE, <<"r">>)},
     write |-> {"ok", "hang"},
     paste |-> {"ok", "timeout"},
     restore |-> {"ok", "hang"}]

\* the tools and the thread start at their best, for the specification
\* about the keyboard
PlainEnv ==
    [threadStart |-> {"ok"},
     overlap |-> TRUE,
     sel |-> {Completed(0, <<"h">>)},
     clipRead |-> {"ok"},
     reply |-> {Reply(200, TRUE, <<"r">>)},
     write |-> {"ok"},
     paste |-> {"ok"},
     restore |-> {"ok"}]

-----------------------------------------------------------------------------
(* The services' pure parts *)

\* the mutant of SelectedText: the output is not stripped before the test
SelectedTextUnstripped(run) ==
    IF run.kind = "completed" /\ run.rc = 0 /\ ~Falsy(run.out)
    THEN run.out
    ELSE NoneVal

\* get_selected_text: the stripped output if xclip exited with 0 and the
\* stripped output is not empty; None otherwise, and on any exception
SelectedText(run) ==
    IF run.kind = "completed" /\ run.rc = 0 /\ ~Falsy(Strip(run.out))
    THEN Strip(run.out)
    ELSE NoneVal

\* SummaryService.get_input_text: the same test on the clipboard
InputText(run) ==
    IF run.kind = "completed" /\ run.rc = 0 /\ ~Falsy(Strip(run.out))
    THEN Strip(run.out)
    ELSE NoneVal

\* the mutant of ProcessedText: raise_for_status() is left out
ProcessedTextAnyStatus(rep) ==
    IF rep.status = 0 \/ ~rep.hasContent THEN NoneVal ELSE Strip(rep.content)

\* send_to_ollama: None on a transport error (RequestException), on an HTTP
\* error status (raise_for_status) and on a body without message.content
\* (KeyError); the stripped content otherwise
ProcessedText(rep) ==
    IF rep.status = 0 \/ rep.status >= 400 \/ ~rep.hasContent
    THEN NoneVal
    ELSE Strip(rep.content)

\* the mutant of IsSentinel: the comparison misses the angle brackets
IsSentinelWrongLiteral(text) == Strip(text) = <<"n", "u", "l", "l">>

\* process_trigger, line 136: rephrased_text.strip() == "<null>"
IsSentinel(text) == Strip(text) = Sentinel

\* replace_selected_text, lines 62-68: the output of the read whatever its
\* exit status, "" when the read raised or timed out
Snapshot(run) == IF run.kind = "completed" THEN run.out ELSE <<>>

\* "no input text is available", as the specification words it: the read
\* timed out, raised, exited non-zero, or gave only whitespace
NoInputAvailable(run) ==
    \/ run.kind # "completed"
    \/ run.rc # 0
    \/ \A i \in 1..Len(run.out) : run.out[i] \in Whitespace

\* the model call's outcome, as the specification words it: "unusable" for
\* no response, a non-2xx status, no message.content or an empty reply;
\* "sentinel" for a reply that is <null> once trimmed; "text" otherwise
ReplyClass(rep) ==
    CASE rep.status \notin 200..299 \/ ~rep.hasContent \/ rep.content = <<>>
             -> "unusable"
      [] OTHER -> IF Strip(rep.content) = Sentinel THEN "sentinel" ELSE "text"

-----------------------------------------------------------------------------
(* A handler thread: handle_shortcut -> process_trigger *)

\* the thread's function returns, the clipboard being `clip`
Return(h, outcome, clip) ==
    [h EXCEPT !.pc = "done", !.outcome = outcome, !.clipEnd = clip]

\* handler i is at position pc of a live process
At(i, pc) ==
    /\ main = "listening"
    /\ i \in DOMAIN handlers
    /\ handlers[i].pc = pc

OnlyHandler(i, h) ==
    /\ handlers' = [handlers EXCEPT ![i] = h]
    /\ UNCHANGED <<main, exitCode, startupLog, service, keynum, pressed_keys,
                   downLast, chordPresses, startFailures>>

\* process_trigger after the input was read: `if not selected_text: return`
AfterInput(h, text, run) ==
    LET g == [h EXCEPT !.sel = text, !.noInput = NoInputAvailable(run)]
    IN  IF Falsy(text)
        THEN Return(g, "no_input", clipboard)
        ELSE [g EXCEPT !.pc = "call_model"]

\* RephraseService.process_trigger, lines 119-122, with get_selected_text:
\* `xclip -selection primary -o`
GetSelectedText(i, run) ==
    /\ At(i, "get_input")
    /\ service = "Rephrase"
    /\ OnlyHandler(i, AfterInput(handlers[i], SelectedText(run), run))
    /\ UNCHANGED clipboard

\* SummaryService.process_trigger, lines 58-61, with get_input_text:
\* `xclip -selection clipboard -o`
GetInputText(i, kind) ==
    /\ At(i, "get_input")
    /\ service = "Summary"
    /\ OnlyHandler(i, AfterInput(handlers[i], InputText(ClipRead(kind)),
                                 ClipRead(kind)))
    /\ UNCHANGED clipboard

\* an exception inside process_trigger (between the input and the model
\* call): handle_shortcut catches and logs it, and the thread ends
ProcessTriggerRaises(i) ==
    /\ At(i, "call_model")
    /\ OnlyHandler(i, Return(handlers[i], "exception", clipboard))
    /\ UNCHANGED clipboard

\* process_trigger after send_to_ollama: return on no result, on the
\* sentinel (rephrase only); go on to the replacement, or log the summary
AfterModel(h, text, rep) ==
    LET g == [h EXCEPT !.res = text, !.reply = ReplyClass(rep),
                       !.calls = @ + 1]
    IN  IF Falsy(text) THEN Return(g, "model_failed", clipboard)
        ELSE IF service = "Summary" THEN Return(g, "summarized", clipboard)
        ELSE IF IsSentinel(text) THEN Return(g, "sentinel", clipboard)
        ELSE [g EXCEPT !.pc = "snapshot"]

\* send_to_ollama(system_prompt, input) and what process_trigger makes of it
SendToOllama(i, rep) ==
    /\ At(i, "call_model")
    /\ OnlyHandler(i, AfterModel(handlers[i], ProcessedText(rep), rep))
    /\ UNCHANGED clipboard

\* replace_selected_text, lines 61-68: save the current clipboard
SaveClipboard(i, kind) ==
    /\ At(i, "snapshot")
    /\ OnlyHandler(i, [handlers[i] EXCEPT !.saved = Snapshot(ClipRead(kind)),
                                          !.pc = "write"])
    /\ UNCHANGED clipboard

\* the mutant of WriteClipboard: the selection is written, not the new text
WriteClipboardSelection(i, how) ==
    /\ At(i, "write")
    /\ LET h == [handlers[i] EXCEPT !.writes = @ + 1,
                                    !.wrote = IF how = "ok" THEN "ok" ELSE "failed"]
       IN  /\ OnlyHandler(i, IF how = "raise"
                             THEN Return(h, "replace_failed", clipboard)
                             ELSE [h EXCEPT !.pc = "paste"])
           /\ clipboard' = IF how = "ok" THEN handlers[i].sel ELSE clipboard

\* replace_selected_text, lines 70-83: pipe the new text into
\* `xclip -selection clipboard`.  The exit status is not looked at and the
\* read-back is only logged; Popen raising ends the replacement (line 112).
\* communicate() is called without a timeout: while xclip does not exit
\* ("hang") the thread stays blocked in it
WriteClipboard(i, how) ==
    /\ At(i, "write")
    /\ LET h == [handlers[i] EXCEPT !.writes = @ + 1,
                                    !.wrote = IF how = "ok" THEN "ok" ELSE "failed"]
       IN  /\ OnlyHandler(i, CASE how = "raise"
                                    -> Return(h, "replace_failed", clipboard)
                               [] how = "hang" -> [h EXCEPT !.pc = "blocked"]
                               [] OTHER -> [h EXCEPT !.pc = "paste"])
           /\ clipboard' = IF how = "ok" THEN handlers[i].res ELSE clipboard

\* replace_selected_text, lines 85-94: `xdotool key ctrl+v`, check=True,
\* timeout 5.  A failure raises past the restore to lines 106-114; after a
\* paste the restore is skipped when the saved text is empty
SimulatePaste(i, how) ==
    /\ At(i, "paste")
    /\ LET h == [handlers[i] EXCEPT !.pastes = @ + 1, !.pasted = clipboard]
       IN  OnlyHandler(i, IF how # "ok"
                          THEN Return(h, "paste_failed", clipboard)
                          ELSE IF Falsy(h.saved)
                          THEN Return(h, "replaced", clipboard)
                          ELSE [h EXCEPT !.pc = "restore"])
    /\ UNCHANGED clipboard

\* the mutant of RestoreClipboard: the new text is written back again
RestoreClipboardWrongText(i, how) ==
    /\ At(i, "restore")
    /\ clipboard' = IF how = "ok" THEN handlers[i].res ELSE clipboard
    /\ OnlyHandler(i, Return([handlers[i] EXCEPT !.writes = @ + 1,
                                                 !.restored = IF how = "ok" THEN "ok"
                                                             ELSE "failed"],
                             "replaced", clipboard'))

\* replace_selected_text, lines 93-104: write the saved text back; a
\* failure is logged and the replacement still reports success.  Here too
\* communicate() has no timeout, and "hang" leaves the thread blocked
RestoreClipboard(i, how) ==
    /\ At(i, "restore")
    /\ clipboard' = IF how = "ok" THEN handlers[i].saved ELSE clipboard
    /\ LET h == [handlers[i] EXCEPT !.writes = @ + 1,
                                    !.restored = IF how = "ok" THEN "ok"
                                                 ELSE "failed"]
       IN  OnlyHandler(i, IF how = "hang"
                          THEN [h EXCEPT !.pc = "blocked"]
                          ELSE Return(h, "replaced", clipboard'))

\* the steps of the handler threads under environment E
HandlerSteps(E) ==
    \/ \E i \in DOMAIN handlers, run \in E.sel : GetSelectedText(i, run)
    \/ \E i \in DOMAIN handlers, kind \in E.clipRead : GetInputText(i, kind)
    \/ \E i \in DOMAIN handlers : ProcessTriggerRaises(i)
    \/ \E i \in DOMAIN handlers, rep \in E.reply : SendToOllama(i, rep)
    \/ \E i \in DOMAIN handlers, kind \in E.clipRead : SaveClipboard(i, kind)
    \/ \E i \in DOMAIN handlers, how \in E.write : WriteClipboard(i, how)
    \/ \E i \in DOMAIN handlers, how \in E.paste : SimulatePaste(i, how)
    \/ \E i \in DOMAIN handlers, how \in E.restore : RestoreClipboard(i, how)

-----------------------------------------------------------------------------
(* Specifications *)

\* the full environment, one chord
Init == InitWith({2}, {<<>>, <<"c", "\n">>, <<" ">>})
Next ==
    \/ Startup
    \/ Interrupt
    \/ KeyEvents(ChordKeys, ChordKeys, FullEnv, MaxHandlers)
    \/ HandlerSteps(FullEnv)
Spec == Init /\ [][Next]_vars

\* several handlers side by side, one outcome of each kind; the modifiers
\* stay held once pressed and the digit is tapped
InitOverlap == InitWith({2}, {<<"c">>})
NextOverlap ==
    \/ Startup
    \/ Interrupt
    \/ KeyEvents(ChordKeys, {CharKey("2")}, KindsEnv, MaxOverlap)
    \/ HandlerSteps(KindsEnv)
SpecOverlap == InitOverlap /\ [][NextOverlap]_vars

\* one handler after the other, every way a handler ends, and thread starts
\* that fail
InitFaults == InitWith({2}, {<<"c">>})
NextFaults ==
    \/ Startup
    \/ Interrupt
    \/ KeyEvents(ChordKeys, ChordKeys, FaultsEnv, MaxFaultHandlers)
    \/ HandlerSteps(FaultsEnv)
SpecFaults == InitFaults /\ [][NextFaults]_vars

\* tools that may never respond, and threads that are scheduled: a handler
\* thread that can take a step takes one in the end
InitLive == InitWith({2}, {<<"c">>})
NextLive ==
    \/ Startup
    \/ Interrupt
    \/ KeyEvents(ChordKeys, ChordKeys, LiveEnv, MaxLiveHandlers)
    \/ HandlerSteps(LiveEnv)
SpecLive == InitLive /\ [][NextLive]_vars /\ WF_vars(HandlerSteps(LiveEnv))

\* the full keyboard, two configured numbers
InitKeys == InitWith({2, 12}, {<<"c">>})
NextKeys ==
    \/ Startup
    \/ Interrupt
    \/ KeyEvents(AllKeys, AllKeys, PlainEnv, MaxKeyHandlers)
    \/ HandlerSteps(PlainEnv)
SpecKeys == InitKeys /\ [][NextKeys]_vars

-----------------------------------------------------------------------------
(* Claims *)

Handler(i) == handlers[i]
Last(seq) == seq[Len(seq)]
InLog(event) == \E n \in DOMAIN startupLog : startupLog[n] = event

\* C1: every key-down that completes the chord (a ctrl-class key and an
\* alt-class key held once the key is added, the key being the character
\* key of the configured digit) starts exactly one handler thread, and no
\* other key-down and no key-up starts one: the handler threads started are
\* as many as the chord-completing key-downs seen.  (SpecKeys: every thread
\* start succeeds)
C1_OneHandlerPerChordPress == Len(handlers) = chordPresses

\* with digit 2, the right-hand modifiers, '2' and '3' are all held and
\* one handler has been started
C1_Witness ==
    /\ keynum = 2
    /\ pressed_keys = {ctrl_r, alt_r, CharKey("2"), CharKey("3")}
    /\ Len(handlers) = 1

C3_RestoredAfterFailedPaste ==
    \A i \in DOMAIN handlers :
        (/\ ~Handler(i).overlap
         /\ Handler(i).outcome = "paste_failed")
        => /\ Handler(i).pc = "done"
           /\ main = "listening"
           /\ Handler(i).clipEnd = Handler(i).clip0

\* C4: a handler, of either service, whose input read gave no text (it timed
\* out, raised, exited non-zero or gave only whitespace) has returned without
\* a model call, a clipboard write or a paste
C4_NoInputNoModelCall ==
    \A i \in DOMAIN handlers :
        Handler(i).noInput
        => /\ Handler(i).pc = "done"
           /\ Handler(i).outcome = "no_input"
           /\ Handler(i).calls = 0
           /\ Handler(i).writes = 0
           /\ Handler(i).pastes = 0
           /\ ~Handler(i).overlap => Handler(i).clipEnd = Handler(i).clip0

\* a summary handler has found only whitespace on the clipboard
C4_Witness ==
    /\ service = "Summary"
    /\ clipboard = <<" ">>
    /\ Len(handlers) = 1
    /\ Handler(1).noInput
    /\ Handler(1).pc = "done"

\* C5: a rephrase handler whose model reply is the sentinel once trimmed has
\* returned without a clipboard write and without a paste
C5_SentinelNoReplacement ==
    \A i \in DOMAIN handlers :
        (service = "Rephrase" /\ Handler(i).reply = "sentinel")
        => /\ Handler(i).pc = "done"
           /\ Handler(i).outcome = "sentinel"
           /\ Handler(i).writes = 0
           /\ Handler(i).pastes = 0
           /\ ~Handler(i).overlap => Handler(i).clipEnd = Handler(i).clip0

\* a rephrase handler got the sentinel and the clipboard is as it was
C5_Witness ==
    /\ service = "Rephrase"
    /\ Len(handlers) = 1
    /\ Handler(1).reply = "sentinel"
    /\ Handler(1).calls = 1
    /\ clipboard = Handler(1).clip0

StartupFailures ==
    {"health_failed", "model_failed", "warmup_failed", "listener_failed"}

\* C7: the listener is started only after the health check, the model check
\* (found or pulled) and the warm-up have passed, in this order; once a
\* startup step has failed the process has exited with a non-zero status,
\* the listener was never started and there is no handler
C7_ListenerAfterStartupChecks ==
    /\ (main = "listening" \/ InLog("listener_started"))
       => startupLog =
              <<"health_ok", "model_ok", "warmup_ok", "listener_started">>
    /\ (startupLog # <<>> /\ Last(startupLog) \in StartupFailures)
       => /\ main = "exited"
          /\ exitCode # 0
          /\ ~InLog("listener_started")
    /\ (handlers # <<>> \/ pressed_keys # {}) => main = "listening"

\* the listener runs and has started a handler
C7_Witness ==
    /\ main = "listening"
    /\ Len(handlers) = 1
    /\ Handler(1).calls = 1

\* C8: whatever the handlers have come to, and whatever on_press has caught,
\* the listener goes on: it stops only on an interrupt, the pressed-key set
\* follows every key event, and a chord completed after a handler has
\* returned or after on_press caught an exception starts a new handler
C8_ListenerSurvivesHandlers ==
    [][/\ (main = "listening" /\ main' # "listening")
          => (main' = "exited" /\ exitCode' = 0)
       /\ pressed_keys' = downLast'
       /\ (/\ chordPresses' = chordPresses + 1
           /\ startFailures' = startFailures
           /\ \/ \E i \in DOMAIN handlers : Handler(i).pc = "done"
              \/ startFailures > 0)
          => /\ Len(handlers') = Len(handlers) + 1
             /\ Running(Last(handlers'))]_vars

\* on_press caught an exception, a handler ended on an exception, alone,
\* and a second handler is running
C8_Witness ==
    /\ startFailures = 1
    /\ Len(handlers) = 2
    /\ Handler(1).outcome = "exception"
    /\ ~Handler(1).overlap
    /\ Running(Handler(2))

\* C9: the held set is exactly the set of keys whose most recent event was
\* a key-down: a key-up takes the released key out and no other, and a
\* key-up of a key that is not held changes nothing
C9_HeldSetIsDownLast == pressed_keys = downLast

\* '2' completed the chord and was released; the modifiers are still held
C9_Witness ==
    /\ keynum = 2
    /\ chordPresses >= 1
    /\ pressed_keys = {ctrl_l, alt_r}

\* C10: the listener never waits for a handler: while it listens every
\* key-down and key-up can be taken whatever the handlers are doing, and a
\* chord completed while a handler is running starts one more handler, at
\* its first step, and leaves the running ones where they are
C10_ListenerNeverWaits ==
    /\ [](main = "listening"
          => \A key \in ChordKeys :
                 ENABLED OnPress(key, "ok") /\ ENABLED OnRelease(key))
    /\ [][(/\ chordPresses' = chordPresses + 1
           /\ startFailures' = startFailures
           /\ \E i \in DOMAIN handlers : Running(Handler(i)))
          => /\ Len(handlers') = Len(handlers) + 1
             /\ Last(handlers').pc = "get_input"
             /\ \A i \in DOMAIN handlers :
                    /\ handlers'[i].pc = Handler(i).pc
                    /\ Running(Handler(i)) => handlers'[i].overlap]_vars

\* '2' has been released while one handler waits for the model and a second
\* one is about to paste
C10_Witness ==
    /\ Len(handlers) = 2
    /\ Handler(1).pc = "call_model"
    /\ Handler(2).pc = "paste"
    /\ pressed_keys = {ctrl_l, alt_l}

\* C11: nothing orders the clipboard steps of overlapping handlers.  What
\* a handler pastes is whatever was written last: its own result when no
\* other handler ran beside it, and otherwise its own result, another
\* handler's result or the snapshot another handler wrote back.  What a
\* handler saves is the clipboard as it found it, which beside another
\* handler may be that handler's result; only a handler that ran alone is
\* sure to leave the clipboard as it was before its trigger
C11_LastWriteWins ==
    \A i \in DOMAIN handlers :
        /\ (Handler(i).pastes > 0 /\ Handler(i).wrote = "ok")
           => /\ ~Handler(i).overlap => Handler(i).pasted = Handler(i).res
              /\ \/ Handler(i).pasted = Handler(i).res
                 \/ \E j \in DOMAIN handlers \ {i} :
                        Handler(i).pasted \in {Handler(j).res, Handler(j).saved}
        /\ (Handler(i).outcome = "replaced" /\ Handler(i).restored = "ok")
           => /\ Handler(i).clipEnd = Handler(i).saved
              /\ ~Handler(i).overlap => Handler(i).clipEnd = Handler(i).clip0
              /\ \/ Handler(i).saved = Handler(i).clip0
                 \/ \E j \in DOMAIN handlers \ {i} :
                        Handler(i).saved \in {Handler(j).res, Handler(j).saved}

\* two handlers triggered while the clipboard held "c" have both returned:
\* the first pasted while the clipboard held the second's result, the second
\* saved the first's result and wrote it back, and the clipboard is not "c"
C11_Witness ==
    /\ Len(handlers) = 2
    /\ \A i \in {1, 2} : /\ Handler(i).outcome = "replaced"
                         /\ Handler(i).clip0 = <<"c">>
    /\ Handler(1).res # Handler(2).res
    /\ Handler(1).pasted = Handler(2).res
    /\ Handler(2).saved = Handler(1).res
    /\ Handler(2).restored = "ok"
    /\ clipboard = Handler(1).res
    /\ clipboard # <<"c">>

\* a handler thread, once started, returns, or is blocked in one of the two
\* clipboard writes, or is gone with the process: the selection and
\* clipboard reads, the model call and the paste are each cut off by their
\* timeout
HandlerReturnsOrBlocksInWrite ==
    \A i \in 1..MaxLiveHandlers :
        (Len(handlers) >= i)
            ~> (Len(handlers) < i \/ Handler(i).pc \in {"done", "blocked"})

\* C12: every handler invocation terminates in the end, whatever the model
\* server and the external tools do: a handler thread, once started,
\* returns (or is gone with the process)
C12_EveryHandlerReturns ==
    \A i \in 1..MaxLiveHandlers :
        (Len(handlers) >= i)
            ~> (Len(handlers) < i \/ ~Running(Handler(i)))

====
